---- MODULE Spec2Model ----
(***************************************************************************)
(* Model of src/scraper.py: the Scraper class (start_scraping,             *)
(* resume_scraping, scrape, get_links, get_link, save_to_db,               *)
(* run_db_inserts, cleanup) and main.                                      *)
(*                                                                         *)
(* One process run is: main -> start_scraping (fresh scrape or resume) ->  *)
(* writer thread started -> cleanup enqueues the sentinel -> writer drains *)
(* the queue and exits.  NewRun re-invokes the program on the store the    *)
(* previous run left behind.                                               *)
(***************************************************************************)
EXTENDS Naturals, Integers, Sequences, FiniteSets, TLC

VARIABLES
    site,        \* the web site being crawled (pages, anchors, redirects)
    max_depth,   \* Scraper.max_depth
    max_threads, \* Scraper.max_threads
    store,       \* table 'pages': url -> row, or NoRow
    visited,     \* Scraper.visited_urls
    queue,       \* Scraper.db_insert_queue
    driver,      \* the page the one shared Selenium driver has loaded
    tasks,       \* the scrape() calls of this run, in order of creation
    mainPc,      \* position of the main thread
    branch,      \* which branch start_scraping / resume_scraping took
    writer,      \* state of the db_insert_thread
    wlog,        \* what the writer has dequeued, and whether the merge committed
    faults,      \* storage faults that may still be injected
    run,         \* number of the current process run
    prev         \* startEmpty: this run began on an empty store; complete:
                 \* the previous run began on an empty store, its root
                 \* scrape completed and its writer upserted every entry
                 \* and exited; max_depth: the
                 \* previous run's max_depth

vars == <<site, max_depth, max_threads, store, visited, queue, driver, tasks,
          mainPc, branch, writer, wlog, faults, run, prev>>

----------------------------------------------------------------------------
(* Bounds of the model *)

MaxDepthBound == 2
MaxThreadsBound == 2
MaxStoreFaults == 1
MaxRuns == 2

----------------------------------------------------------------------------
(* URLs and hrefs.  A URL is its network location and its path; an href is *)
(* what an <a> tag carries before get_links resolves it.                   *)

U(h, p) == [host |-> h, path |-> p]

H(k, h, p) == [kind |-> k, host |-> h, path |-> p]

initial_url == U("site", "")

PageA == U("site", "a")

PageB == U("site", "b")

PageX == U("other", "x")

AllUrls == {initial_url, PageA, PageB, PageX}

NoPage == [host |-> "", path |-> "about:blank"]

NoTitle == "<none>"

\* urlparse(u).netloc
Netloc(u) == u.host

\* urljoin(self.initial_url, href) for the href shapes of the model:
\* "/p" keeps the seed's host, "//h/p" takes the host of the href, "p" is
\* relative to the seed (whose path is "/"), an absolute href is unchanged.
UrlJoin(base, href) ==
    CASE href.kind = "root" -> U(Netloc(base), href.path)
      [] href.kind = "net"  -> U(href.host, href.path)
      [] href.kind = "rel"  -> U(Netloc(base), href.path)
      [] OTHER              -> U(href.host, href.path)

\* href.startswith("/")
StartsWithSlash(href) == href.kind \in {"root", "net"}

\* href.startswith("http")
StartsWithHttp(href) == href.kind = "abs"

\* get_links, lines 188-195: the href handed to get_link
ResolveHref(href) ==
    IF StartsWithSlash(href) THEN UrlJoin(initial_url, href)
    ELSE IF ~StartsWithHttp(href) THEN UrlJoin(initial_url, href)
    ELSE U(href.host, href.path)

\* `if href:` (line 189): an absent or empty href is not submitted
HrefPresent(href) == href.kind # "empty"

RECURSIVE ResolveAll(_)
ResolveAll(anchors) ==
    IF anchors = <<>> THEN <<>>
    ELSE LET rest == ResolveAll(Tail(anchors))
         IN  IF HrefPresent(Head(anchors))
             THEN <<ResolveHref(Head(anchors))>> \o rest
             ELSE rest

----------------------------------------------------------------------------
(* The web sites of the model.  A page is what driver.get leaves in the    *)
(* browser: its final (post-redirect) URL, its <title> (NoTitle when the   *)
(* document has none) and the hrefs of its <a> tags in document order.     *)

Pg(final, title, anchors) == [final |-> final, title |-> title, anchors |-> anchors]

\* seed with two same-domain links and one cross-domain link
SitePair ==
    [u \in AllUrls |->
        CASE u = initial_url -> Pg(u, "Home", <<H("root", "", "a"), H("rel", "", "b"),
                                               H("abs", "other", "x")>>)
          [] u = PageA -> Pg(u, "A", <<>>)
          [] u = PageB -> Pg(u, "B", <<>>)
          [] OTHER     -> Pg(u, "X", <<>>)]

\* a cycle a -> b -> a, and a link back to the seed
SiteCycle ==
    [u \in AllUrls |->
        CASE u = initial_url -> Pg(u, "Home", <<H("root", "", "a")>>)
          [] u = PageA -> Pg(u, "A", <<H("abs", "site", ""), H("root", "", "b")>>)
          [] u = PageB -> Pg(u, "B", <<H("rel", "", "a"), H("net", "other", "x")>>)
          [] OTHER     -> Pg(u, "X", <<>>)]

\* the same href twice and an empty href; page a redirects off the domain
SiteDup ==
    [u \in AllUrls |->
        CASE u = initial_url -> Pg(u, "Home", <<H("root", "", "a"), H("abs", "site", "a"),
                                               H("empty", "", "")>>)
          [] u = PageA -> Pg(PageX, "X", <<H("abs", "site", "b")>>)
          [] u = PageB -> Pg(u, "B", <<>>)
          [] OTHER     -> Pg(u, "X", <<H("abs", "site", "b")>>)]

\* page a has no <title>; page b, its sibling, links to it twice
SiteChildNoTitle ==
    [u \in AllUrls |->
        CASE u = initial_url -> Pg(u, "Home", <<H("root", "", "a"), H("root", "", "b")>>)
          [] u = PageA -> Pg(u, NoTitle, <<H("root", "", "b")>>)
          [] u = PageB -> Pg(u, "B", <<H("root", "", "a"), H("abs", "site", "a")>>)
          [] OTHER     -> Pg(u, "X", <<>>)]

\* the seed page has no <title>
SiteSeedNoTitle ==
    [u \in AllUrls |->
        CASE u = initial_url -> Pg(u, NoTitle, <<H("root", "", "a")>>)
          [] u = PageA -> Pg(u, "A", <<>>)
          [] u = PageB -> Pg(u, "B", <<>>)
          [] OTHER     -> Pg(u, "X", <<>>)]

Sites == {SitePair, SiteCycle, SiteDup, SiteChildNoTitle, SiteSeedNoTitle}

----------------------------------------------------------------------------
(* The record store: table 'pages' keyed by url (class Page).              *)

NoRow == [none |-> TRUE]

\* a column value as the DB-API driver receives it
Val(kind, v) == [kind |-> kind, v |-> v]

\* Page(url, source_url, depth, title, links) without its key
Row(source_url, depth, title, links) ==
    [source_url |-> source_url, depth |-> depth, title |-> title, links |-> links]

\* line 214: the placeholder of a link seen for the first time; its links
\* column is a Python set
Placeholder(current_url) == Row(current_url, 0, Val("str", ""), Val("set", <<>>))

\* sqlite3 binds str, bytes and int parameters; a set raises
\* "Error binding parameter: type 'set' is not supported", which SQLAlchemy
\* re-raises from the flush inside session.commit()
SqliteBindable(val) == val.kind \in {"str", "bytes", "int"}

\* session.add(page); session.commit() of a new row: the INSERT needs every
\* parameter bound and the primary key unused
InsertCommits(url, row) ==
    /\ SqliteBindable(row.title)
    /\ SqliteBindable(row.links)
    /\ store[url] = NoRow

\* codecs.encode(title, 'utf-8')
EncodeTitle(title) == Val("bytes", title)

\* json.dumps(links, cls=SetEncoder) of the list scrape built
DumpLinks(links) == Val("str", links)

\* mutant of WriterRow: the row is stored with the depth of the page's links
WriterRowDeeper(e) ==
    Row(e.source_url, e.depth + 1, EncodeTitle(e.title), DumpLinks(e.links))

\* lines 247-253: the row the writer merges for a queue entry
WriterRow(e) == Row(e.source_url, e.depth, EncodeTitle(e.title), DumpLinks(e.links))

Sentinel == [sentinel |-> TRUE]

\* mutant of Entry: the tuple carries the depth of the children
EntryDeeper(url, current_url, depth, title, links) ==
    [url |-> url, source_url |-> current_url, depth |-> depth + 1, title |-> title,
     links |-> links]

\* line 171: result = (url, self.driver.current_url, depth, title, links)
Entry(url, current_url, depth, title, links) ==
    [url |-> url, source_url |-> current_url, depth |-> depth, title |-> title,
     links |-> links]

----------------------------------------------------------------------------
(* scrape() calls.  The root call runs on the main thread; every other     *)
(* call is a future of its parent's ThreadPoolExecutor.                    *)

Terminal == {"skipped", "failed", "raised", "completed"}

NewTask(url, depth, parent, pc) ==
    [url |-> url, depth |-> depth, parent |-> parent, pc |-> pc,
     att |-> "none", src |-> NoPage, jobs |-> <<>>, saved |-> FALSE]

\* a get_link(href) future of get_links
NewJob(href) == [href |-> href, st |-> "queued", seen |-> -1, acc |-> FALSE]

RECURSIVE JobsOf(_)
JobsOf(hrefs) ==
    IF hrefs = <<>> THEN <<>> ELSE <<NewJob(Head(hrefs))>> \o JobsOf(Tail(hrefs))

\* lines 198-199: the hrefs the finished get_link futures returned
RECURSIVE Accepted(_)
Accepted(jobs) ==
    IF jobs = <<>> THEN <<>>
    ELSE IF Head(jobs).acc THEN <<Head(jobs).href>> \o Accepted(Tail(jobs))
    ELSE Accepted(Tail(jobs))

TaskIds == 1..Len(tasks)

Children(t) == {c \in TaskIds : tasks[c].parent = t}

\* line 273: max_depth is whatever int the command line gives; with a
\* negative one the depth guard of line 152 stops the root call
DepthChoices == (-1)..MaxDepthBound

\* a storage operation may fail while faults remain to be injected
FaultChoices == IF faults > 0 THEN {TRUE, FALSE} ELSE {FALSE}

----------------------------------------------------------------------------
(* Initial state: a configuration and an empty database file.              *)

Init ==
    /\ site \in Sites
    /\ max_depth \in DepthChoices
    /\ max_threads \in 1..MaxThreadsBound
    /\ store = [u \in AllUrls |-> NoRow]
    /\ visited = {}
    /\ queue = <<>>
    /\ driver = NoPage
    /\ tasks = <<>>
    /\ mainPc = "start"
    /\ branch = "none"
    /\ writer = "notstarted"
    /\ wlog = <<>>
    /\ faults = MaxStoreFaults
    /\ run = 1
    /\ prev = [startEmpty |-> TRUE, complete |-> FALSE, max_depth |-> 0]

----------------------------------------------------------------------------
(* The main thread: main, start_scraping, resume_scraping, cleanup.        *)

\* lines 104-105: session.query(Page).filter_by(url=self.initial_url).count()
SeedCount == IF store[initial_url] = NoRow THEN 0 ELSE 1

\* mutant of AlreadyComplete: > for >=
AlreadyCompleteStrict(last_depth) == last_depth > max_depth

\* line 132: if last_depth >= self.max_depth
AlreadyComplete(last_depth) == last_depth >= max_depth

\* line 137 reads self.url_queue; __init__ (lines 74-100) sets no such
\* attribute, so the read raises AttributeError
HasUrlQueue == FALSE

\* lines 102-114
StartScraping ==
    /\ mainPc = "start"
    /\ IF SeedCount > 0
       THEN /\ mainPc' = "resume"
            /\ UNCHANGED <<tasks, branch>>
       ELSE /\ tasks' = <<NewTask(initial_url, 0, 0, "check")>>
            /\ branch' = "fresh"
            /\ mainPc' = "scrape"
    /\ UNCHANGED <<site, max_depth, max_threads, store, visited, queue, driver,
                   writer, wlog, faults, run, prev>>

\* lines 120-149; the exception of line 137 leaves resume_scraping,
\* start_scraping and main, and ends the process
ResumeScraping ==
    /\ mainPc = "resume"
    /\ LET last_page == store[initial_url]
       IN  IF AlreadyComplete(last_page.depth)
           THEN /\ branch' = "complete"
                /\ mainPc' = "startWriter"
                /\ UNCHANGED <<visited, tasks>>
           ELSE IF ~HasUrlQueue
           THEN /\ branch' = "resume"
                /\ mainPc' = "aborted"
                /\ UNCHANGED <<visited, tasks>>
           ELSE /\ branch' = "resume"
                /\ visited' = visited \cup {initial_url}
                /\ tasks' = <<NewTask(initial_url, last_page.depth, 0, "check")>>
                /\ mainPc' = "scrape"
    /\ UNCHANGED <<site, max_depth, max_threads, store, queue, driver, writer,
                   wlog, faults, run, prev>>

\* the root scrape call returns to start_scraping, or its exception leaves
\* start_scraping and main
RootReturn ==
    /\ mainPc = "scrape"
    /\ tasks[1].pc \in Terminal
    /\ mainPc' = IF tasks[1].pc = "raised" THEN "aborted" ELSE "startWriter"
    /\ UNCHANGED <<site, max_depth, max_threads, store, visited, queue, driver,
                   tasks, branch, writer, wlog, faults, run, prev>>

\* lines 116-118
StartWriter ==
    /\ mainPc = "startWriter"
    /\ writer' = "running"
    /\ mainPc' = "cleanup"
    /\ UNCHANGED <<site, max_depth, max_threads, store, visited, queue, driver,
                   tasks, branch, wlog, faults, run, prev>>

\* lines 261-267
Cleanup ==
    /\ mainPc = "cleanup"
    /\ driver' = NoPage
    /\ queue' = Append(queue, Sentinel)
    /\ mainPc' = "exit"
    /\ UNCHANGED <<site, max_depth, max_threads, store, visited, tasks, branch,
                   writer, wlog, faults, run, prev>>

----------------------------------------------------------------------------
(* The writer thread: run_db_inserts.                                      *)

\* lines 235-255: an entry is dequeued and merged
WriterUpsert ==
    /\ writer = "running"
    /\ queue # <<>>
    /\ Head(queue) # Sentinel
    /\ store' = [store EXCEPT ![Head(queue).url] = WriterRow(Head(queue))]
    /\ queue' = Tail(queue)
    /\ wlog' = Append(wlog, [e |-> Head(queue), ok |-> TRUE])
    /\ UNCHANGED <<site, max_depth, max_threads, visited, driver, tasks, mainPc,
                   branch, writer, faults, run, prev>>

\* mutant of WriterStoreError: the try is outside the loop, so the
\* exception ends the writer
WriterStoreErrorEndsLoop ==
    /\ writer = "running"
    /\ queue # <<>>
    /\ Head(queue) # Sentinel
    /\ faults > 0
    /\ faults' = faults - 1
    /\ queue' = Tail(queue)
    /\ wlog' = Append(wlog, [e |-> Head(queue), ok |-> FALSE])
    /\ writer' = "exited"
    /\ UNCHANGED <<site, max_depth, max_threads, store, visited, driver, tasks,
                   mainPc, branch, run, prev>>

\* lines 256-259: the merge or commit raises; rollback, next iteration
WriterStoreError ==
    /\ writer = "running"
    /\ queue # <<>>
    /\ Head(queue) # Sentinel
    /\ faults > 0
    /\ faults' = faults - 1
    /\ queue' = Tail(queue)
    /\ wlog' = Append(wlog, [e |-> Head(queue), ok |-> FALSE])
    /\ UNCHANGED <<site, max_depth, max_threads, store, visited, driver, tasks,
                   mainPc, branch, writer, run, prev>>

\* lines 236-237
WriterExit ==
    /\ writer = "running"
    /\ queue # <<>>
    /\ Head(queue) = Sentinel
    /\ queue' = Tail(queue)
    /\ writer' = "exited"
    /\ UNCHANGED <<site, max_depth, max_threads, store, visited, driver, tasks,
                   mainPc, branch, wlog, faults, run, prev>>

----------------------------------------------------------------------------
(* scrape(url, depth), lines 151-181, and get_links / get_link.            *)

\* line 152: if depth > self.max_depth
DepthGuard(depth) == depth > max_depth

\* mutant of VisitedGuard: the visited test is dropped
VisitedGuardOff(url) == FALSE

\* line 155: if url in self.visited_urls
VisitedGuard(url) == url \in visited

\* mutant of SameDomain: the netloc test is dropped
SameDomainAny(href) == TRUE

\* line 207: parsed_url.netloc == urlparse(self.initial_url).netloc
SameDomain(href) == Netloc(href) = Netloc(initial_url)

\* line 217: elif page.depth < self.max_depth
Requeue(page_depth) == page_depth < max_depth

\* line 180: ... for link in links if depth + 1 <= self.max_depth
FanOutAllowed(depth) == depth + 1 <= max_depth

\* what the driver shows after get(u): the page of the site, or the blank
\* document (no <title>, no <a>) of a browser that has loaded nothing
PageOf(u) == IF u = NoPage THEN Pg(NoPage, NoTitle, <<>>) ELSE site[u]

\* self.driver.current_url: the final URL of the page the driver has loaded
CurrentUrl == PageOf(driver).final

\* a worker of the parent's ThreadPoolExecutor(max_workers=max_threads) is
\* free to take the next submitted scrape call
Busy(p) == {c \in Children(p) : tasks[c].pc \notin Terminal \cup {"queued"}}

\* mutant of CanStart: the pool starts a thread for every submitted call
CanStartUnbounded(t) == tasks[t].pc \in {"check", "queued"}

CanStart(t) ==
    \/ tasks[t].pc = "check"
    \/ /\ tasks[t].pc = "queued"
       /\ Cardinality(Busy(tasks[t].parent)) < max_threads

TaskFrame ==
    <<site, max_depth, max_threads, mainPc, branch, writer, wlog, run, prev>>

\* lines 152-156: the two guards
Check(t) ==
    /\ CanStart(t)
    /\ tasks' = [tasks EXCEPT ![t].pc =
                    IF DepthGuard(tasks[t].depth) THEN "skipped"
                    ELSE IF VisitedGuard(tasks[t].url) THEN "skipped"
                    ELSE "add"]
    /\ UNCHANGED <<TaskFrame, store, visited, queue, driver, faults>>

\* mutant of AddVisited: line 157 is missing
AddVisitedDropped(t) ==
    /\ tasks[t].pc = "add"
    /\ tasks' = [tasks EXCEPT ![t].pc = "fetch"]
    /\ UNCHANGED <<TaskFrame, store, visited, queue, driver, faults>>

\* line 157
AddVisited(t) ==
    /\ tasks[t].pc = "add"
    /\ visited' = visited \cup {tasks[t].url}
    /\ tasks' = [tasks EXCEPT ![t].pc = "fetch"]
    /\ UNCHANGED <<TaskFrame, store, queue, driver, faults>>

\* line 160: self.driver.get(url) returns
FetchOk(t) ==
    /\ tasks[t].pc = "fetch"
    /\ driver' = tasks[t].url
    /\ tasks' = [tasks EXCEPT ![t].pc = "parse", ![t].att = "ok"]
    /\ UNCHANGED <<TaskFrame, store, visited, queue, faults>>

\* mutant of FetchFail: the except block logs and does not return
FetchFailFallsThrough(t) ==
    /\ tasks[t].pc = "fetch"
    /\ tasks' = [tasks EXCEPT ![t].pc = "parse", ![t].att = "err"]
    /\ UNCHANGED <<TaskFrame, store, visited, queue, driver, faults>>

\* lines 161-164: self.driver.get(url) raises
FetchFail(t) ==
    /\ tasks[t].pc = "fetch"
    /\ tasks' = [tasks EXCEPT ![t].pc = "failed", ![t].att = "err"]
    /\ UNCHANGED <<TaskFrame, store, visited, queue, driver, faults>>

\* lines 166-169 and 183-197: the page the driver shows now is parsed;
\* soup.title is None for a document without <title>, and .string raises
\* AttributeError; otherwise one get_link future per present href
Parse(t) ==
    /\ tasks[t].pc = "parse"
    /\ IF PageOf(driver).title = NoTitle
       THEN tasks' = [tasks EXCEPT ![t].pc = "raised", ![t].src = driver]
       ELSE tasks' = [tasks EXCEPT ![t].pc = "links", ![t].src = driver,
                                   ![t].jobs = JobsOf(ResolveAll(PageOf(driver).anchors))]
    /\ UNCHANGED <<TaskFrame, store, visited, queue, driver, faults>>

\* the get_link futures of one get_links call run first-submitted first on
\* at most max_threads workers
JobCanStart(t, j) ==
    /\ tasks[t].pc = "links"
    /\ tasks[t].jobs[j].st = "queued"
    /\ \A i \in 1..(j - 1) : tasks[t].jobs[i].st # "queued"
    /\ Cardinality({i \in 1..Len(tasks[t].jobs) : tasks[t].jobs[i].st = "read"})
          < max_threads

\* lines 205-210, and 217 when it is false: the netloc test and the lookup.
\* A lookup that raises is caught at line 223 and the link is not accepted.
GetLinkQuery(t, j) ==
    /\ JobCanStart(t, j)
    /\ LET href == tasks[t].jobs[j].href
           page == store[href]
       IN  IF ~SameDomain(href)
           THEN /\ tasks' = [tasks EXCEPT ![t].jobs[j].st = "done"]
                /\ UNCHANGED faults
           ELSE \E fail \in FaultChoices :
                IF fail
                THEN /\ tasks' = [tasks EXCEPT ![t].jobs[j].st = "done"]
                     /\ faults' = faults - 1
                ELSE /\ UNCHANGED faults
                     /\ IF page = NoRow
                        THEN tasks' = [tasks EXCEPT ![t].jobs[j].st = "read"]
                        ELSE IF Requeue(page.depth)
                        THEN tasks' = [tasks EXCEPT ![t].jobs[j].st = "read",
                                                    ![t].jobs[j].seen = page.depth]
                        ELSE tasks' = [tasks EXCEPT ![t].jobs[j].st = "done",
                                                    ![t].jobs[j].seen = page.depth]
    /\ UNCHANGED <<TaskFrame, store, visited, queue, driver>>

\* lines 211-216: links.append(href), then the placeholder is added and
\* committed; a commit that raises is caught at line 223 after the append
GetLinkInsert(t, j) ==
    /\ tasks[t].pc = "links"
    /\ tasks[t].jobs[j].st = "read"
    /\ tasks[t].jobs[j].seen = -1
    /\ LET href == tasks[t].jobs[j].href
           page == Placeholder(CurrentUrl)
       IN  \E fail \in FaultChoices :
             /\ faults' = IF fail THEN faults - 1 ELSE faults
             /\ store' = IF ~fail /\ InsertCommits(href, page)
                         THEN [store EXCEPT ![href] = page]
                         ELSE store
    /\ tasks' = [tasks EXCEPT ![t].jobs[j].st = "done", ![t].jobs[j].acc = TRUE]
    /\ UNCHANGED <<TaskFrame, visited, queue, driver>>

\* lines 217-222: links.append(href), then page.depth += 1 is flushed as
\* UPDATE pages SET depth = <depth read + 1> WHERE url = href
GetLinkUpdate(t, j) ==
    /\ tasks[t].pc = "links"
    /\ tasks[t].jobs[j].st = "read"
    /\ tasks[t].jobs[j].seen # -1
    /\ LET href == tasks[t].jobs[j].href
       IN  \E fail \in FaultChoices :
             /\ faults' = IF fail THEN faults - 1 ELSE faults
             /\ store' = IF fail THEN store
                         ELSE [store EXCEPT ![href].depth = tasks[t].jobs[j].seen + 1]
    /\ tasks' = [tasks EXCEPT ![t].jobs[j].st = "done", ![t].jobs[j].acc = TRUE]
    /\ UNCHANGED <<TaskFrame, visited, queue, driver>>

\* mutant of Save: db_insert_queue is a LifoQueue, the entry is put where
\* the writer takes the next one
SaveLifo(t) ==
    /\ tasks[t].pc = "links"
    /\ \A j \in 1..Len(tasks[t].jobs) : tasks[t].jobs[j].st = "done"
    /\ queue' = <<Entry(tasks[t].url, CurrentUrl, tasks[t].depth,
                        PageOf(tasks[t].src).title, Accepted(tasks[t].jobs))>> \o queue
    /\ tasks' = [tasks EXCEPT ![t].pc = "fanout", ![t].saved = TRUE]
    /\ UNCHANGED <<TaskFrame, store, visited, driver, faults>>

\* lines 198-200 and 171-172: every future is done; the result tuple is
\* built with the driver's current URL and put on the queue
Save(t) ==
    /\ tasks[t].pc = "links"
    /\ \A j \in 1..Len(tasks[t].jobs) : tasks[t].jobs[j].st = "done"
    /\ queue' = Append(queue, Entry(tasks[t].url, CurrentUrl, tasks[t].depth,
                                    PageOf(tasks[t].src).title, Accepted(tasks[t].jobs)))
    /\ tasks' = [tasks EXCEPT ![t].pc = "fanout", ![t].saved = TRUE]
    /\ UNCHANGED <<TaskFrame, store, visited, driver, faults>>

RECURSIVE Submitted(_, _, _)
Submitted(links, depth, parent) ==
    IF links = <<>> THEN <<>>
    ELSE <<NewTask(Head(links), depth, parent, "queued")>>
         \o Submitted(Tail(links), depth, parent)

\* lines 178-180: one future per accepted link, if depth + 1 is allowed
FanOut(t) ==
    /\ tasks[t].pc = "fanout"
    /\ tasks' = [tasks EXCEPT ![t].pc = "join"]
                \o (IF FanOutAllowed(tasks[t].depth)
                    THEN Submitted(Accepted(tasks[t].jobs), tasks[t].depth + 1, t)
                    ELSE <<>>)
    /\ UNCHANGED <<TaskFrame, store, visited, queue, driver, faults>>

\* mutant of Join: the futures are submitted and not waited for
JoinNoWait(t) ==
    /\ tasks[t].pc = "join"
    /\ tasks' = [tasks EXCEPT ![t].pc = "completed"]
    /\ UNCHANGED <<TaskFrame, store, visited, queue, driver, faults>>

\* line 181 and the executor's exit: every submitted future is done
Join(t) ==
    /\ tasks[t].pc = "join"
    /\ \A c \in Children(t) : tasks[c].pc \in Terminal
    /\ tasks' = [tasks EXCEPT ![t].pc = "completed"]
    /\ UNCHANGED <<TaskFrame, store, visited, queue, driver, faults>>

----------------------------------------------------------------------------
(* The program is invoked again on the database file the last run left.    *)

RunEnded == mainPc = "aborted" \/ (mainPc = "exit" /\ writer = "exited")

NewRun ==
    /\ RunEnded
    /\ run < MaxRuns
    /\ run' = run + 1
    /\ max_depth' \in DepthChoices
    /\ prev' = [startEmpty |-> \A u \in AllUrls : store[u] = NoRow,
                complete |-> /\ prev.startEmpty
                             /\ mainPc = "exit"
                             /\ tasks # <<>>
                             /\ tasks[1].pc = "completed"
                             /\ \A i \in 1..Len(wlog) : wlog[i].ok,
                max_depth |-> max_depth]
    /\ visited' = {}
    /\ queue' = <<>>
    /\ driver' = NoPage
    /\ tasks' = <<>>
    /\ mainPc' = "start"
    /\ branch' = "none"
    /\ writer' = "notstarted"
    /\ wlog' = <<>>
    /\ UNCHANGED <<site, max_threads, store, faults>>

----------------------------------------------------------------------------

Step ==
    \/ StartScraping
    \/ ResumeScraping
    \/ RootReturn
    \/ StartWriter
    \/ Cleanup
    \/ WriterUpsert
    \/ WriterStoreError
    \/ WriterExit
    \/ \E t \in TaskIds : Check(t)
    \/ \E t \in TaskIds : AddVisited(t)
    \/ \E t \in TaskIds : FetchOk(t)
    \/ \E t \in TaskIds : FetchFail(t)
    \/ \E t \in TaskIds : Parse(t)
    \/ \E t \in TaskIds : \E j \in 1..Len(tasks[t].jobs) : GetLinkQuery(t, j)
    \/ \E t \in TaskIds : \E j \in 1..Len(tasks[t].jobs) : GetLinkInsert(t, j)
    \/ \E t \in TaskIds : \E j \in 1..Len(tasks[t].jobs) : GetLinkUpdate(t, j)
    \/ \E t \in TaskIds : Save(t)
    \/ \E t \in TaskIds : FanOut(t)
    \/ \E t \in TaskIds : Join(t)

Next == Step \/ NewRun

Spec == Init /\ [][Next]_vars

\* every thread that can take a step eventually takes one
FairSpec == Spec /\ WF_vars(Step)

----------------------------------------------------------------------------
(* Properties.                                                             *)

PageEntries == {i \in 1..Len(queue) : queue[i] # Sentinel}

\* a task whose driver.get has been called, or is about to be
FetchIssued(t) == tasks[t].pc = "fetch" \/ tasks[t].att # "none"

AllTerminal == \A t \in TaskIds : tasks[t].pc \in Terminal

\* the writer has taken the sentinel off an otherwise empty queue
Drained == AllTerminal /\ queue = <<>> /\ writer = "exited"

\* C1 (depth bound): in every run, fresh or resumed, no task that issues a
\* fetch has depth > max_depth, and every entry on the write queue has
\* depth <= max_depth.
C1_DepthBound ==
    /\ \A t \in TaskIds : FetchIssued(t) => tasks[t].depth <= max_depth
    /\ \A i \in PageEntries : queue[i].depth <= max_depth

\* C1 witness: a page at the deepest allowed level (below the seed) has been
\* fetched and its entry is on the queue.
C1_Witness ==
    /\ max_depth > 0
    /\ \E t \in TaskIds : tasks[t].att = "ok" /\ tasks[t].depth = max_depth
    /\ \E i \in PageEntries : queue[i].depth = max_depth

\* the tasks that called driver.get(u)
Fetchers(u) == {t \in TaskIds : tasks[t].url = u /\ tasks[t].att # "none"}

\* C2 (visited-once): with max_threads = 1 no URL is fetched more than once
\* in a run, whatever the link graph.
C2_VisitedOnce ==
    max_threads = 1 => \A u \in AllUrls : Cardinality(Fetchers(u)) <= 1

\* C2 witness: single-threaded, a second scrape call for a URL that has been
\* fetched was stopped by the visited guard.
C2_Witness ==
    /\ max_threads = 1
    /\ \E t \in TaskIds :
          /\ tasks[t].pc = "skipped"
          /\ tasks[t].depth <= max_depth
          /\ Fetchers(tasks[t].url) # {}

\* C3 (resume idempotence), as claimed: after a run that began on an empty
\* store and ended normally, a second run with the same seed and the same
\* max_depth issues no fetch and takes the 'already complete' branch.
C3_ResumeIdempotent ==
    (run > 1 /\ prev.complete /\ max_depth = prev.max_depth) =>
        /\ \A t \in TaskIds : ~FetchIssued(t)
        /\ mainPc \notin {"start", "resume"} => branch = "complete"

\* C4 (termination and drain), as claimed: a run that starts a fresh
\* traversal keeps taking steps until every expansion is terminal, the
\* queue is empty and the writer has exited after the sentinel.
C4_TerminationAndDrain ==
    branch = "fresh" => (Drained \/ ENABLED Step)

\* the run has ended normally: main returned and the writer thread exited
RunDone == mainPc = "exit" /\ writer = "exited"

\* scrape calls submitted by a parent whose driver.get raised
FailedChildren == {c \in TaskIds : tasks[c].att = "err" /\ tasks[c].parent # 0}

Range(seq) == {seq[i] : i \in 1..Len(seq)}

\* (b) and the last part of C5 for failed child c of parent p: once the run
\* is over every link accepted from p has had its fetch attempted; c is
\* FAILED, has enqueued nothing and has submitted nothing
C5_SiblingsAndChild(c, p) ==
    /\ RunDone => \A link \in Range(Accepted(tasks[p].jobs)) : Fetchers(link) # {}
    /\ tasks[c].pc = "failed"
    /\ ~tasks[c].saved
    /\ Children(c) = {}

\* C5 (failure isolation), as claimed: when a child's fetch fails, the
\* parent's entry has already been enqueued and by the end of the run is a
\* row of the store, every link accepted from the parent has had its fetch
\* attempted, and the failed child is FAILED with no queue entry.
C5_FailureIsolation ==
    \A c \in FailedChildren :
        LET p == tasks[c].parent
        IN  /\ tasks[p].saved
            /\ RunDone => store[tasks[p].url] # NoRow
            /\ C5_SiblingsAndChild(c, p)

\* the writer log entries for URL u
LogOf(u) == {i \in 1..Len(wlog) : wlog[i].e.url = u}

C5_AmendedInv ==
    \A c \in FailedChildren :
        LET p == tasks[c].parent
        IN  /\ tasks[p].saved
            /\ RunDone =>
                  /\ \E i \in LogOf(tasks[p].url) : wlog[i].e.depth = tasks[p].depth
                  /\ (\A i \in LogOf(tasks[p].url) : wlog[i].ok)
                        => store[tasks[p].url] # NoRow
            /\ C5_SiblingsAndChild(c, p)

\* C5 amended: as C5, except that the parent's entry is eventually dequeued
\* by the writer and is a row of the store unless the upsert of an entry for
\* the parent's URL failed with a storage error.  'Eventually': after a
\* child's fetch has failed the run can always take a further step until it
\* has ended normally, and every step of a run is a step forward.
C5_FailureIsolationAmended ==
    /\ C5_AmendedInv
    /\ FailedChildren # {} => (RunDone \/ ENABLED Step)

\* C5 witness: the run is over, a child's fetch failed, a sibling link's
\* fetch succeeded and the parent's row is in the store.
C5_Witness ==
    /\ RunDone
    /\ \E c \in FailedChildren :
          /\ store[tasks[tasks[c].parent].url] # NoRow
          /\ \E s \in Children(tasks[c].parent) :
                tasks[s].url # tasks[c].url /\ tasks[s].att = "ok"

\* C6 (domain filter): a URL whose network location differs from the
\* seed's is never accepted by get_link, never fetched and never the key of
\* a row; from an empty store every row key has the seed's network location.
C6_DomainFilter ==
    /\ \A t \in TaskIds : \A j \in 1..Len(tasks[t].jobs) :
          tasks[t].jobs[j].acc => tasks[t].jobs[j].href.host = initial_url.host
    /\ \A t \in TaskIds : FetchIssued(t) => tasks[t].url.host = initial_url.host
    /\ \A u \in AllUrls : store[u] # NoRow => u.host = initial_url.host

\* C6 witness: get_link has rejected a cross-domain href, while rows of
\* same-domain pages are in the store.
C6_Witness ==
    /\ \E t \in TaskIds : \E j \in 1..Len(tasks[t].jobs) :
          /\ tasks[t].jobs[j].href.host # initial_url.host
          /\ tasks[t].jobs[j].st = "done"
          /\ ~tasks[t].jobs[j].acc
    /\ \E u \in AllUrls : u # initial_url /\ store[u] # NoRow

\* the step in which the writer logged a failed upsert
WriterFailedStep == Len(wlog') = Len(wlog) + 1 /\ ~wlog'[Len(wlog')].ok

\* C7 (writer error handling): a failed upsert discards exactly the
\* dequeued entry, leaves the store as it was and the writer running; the
\* writer then still takes every later entry and exits at the sentinel,
\* having dequeued every enqueued entry once (after a failure the run can
\* always take a further step until the writer has exited).
C7_WriterErrorHandling ==
    /\ [][WriterFailedStep =>
            /\ queue # <<>>
            /\ wlog'[Len(wlog')].e = Head(queue)
            /\ queue' = Tail(queue)
            /\ store' = store
            /\ writer = "running" /\ writer' = "running"]_vars
    /\ [](writer = "exited" =>
            /\ queue = <<>>
            /\ Len(wlog) = Cardinality({t \in TaskIds : tasks[t].saved}))
    /\ []((\E i \in 1..Len(wlog) : ~wlog[i].ok) =>
             (writer = "exited" \/ ENABLED Step))

\* C7 witness: an upsert failed, a later entry was upserted, and the writer
\* has exited.
C7_Witness ==
    /\ writer = "exited"
    /\ \E i, j \in 1..Len(wlog) : i < j /\ ~wlog[i].ok /\ wlog[j].ok

\* C8 (resume below the maximum), as claimed: when the seed's record has
\* depth < max_depth the seed is put in the VisitedSet, scrape is invoked on
\* it, and the run goes on to start the writer and end normally.
C8_ResumeBelowMax ==
    branch = "resume" =>
        /\ initial_url \in visited
        /\ tasks # <<>>
        /\ mainPc # "aborted"

\* C9 (start-up dispatch): with no seed record start_scraping invokes
\* scrape(seed, 0); with a seed record of depth >= max_depth the resume
\* controller takes the 'already complete' branch, in which nothing is
\* fetched, the VisitedSet stays empty, no page entry is enqueued and no row
\* changes.
C9_StartupDispatch ==
    [][/\ (mainPc = "start" /\ store[initial_url] = NoRow) =>
             /\ branch' = "fresh"
             /\ Len(tasks') = 1
             /\ tasks'[1].url = initial_url
             /\ tasks'[1].depth = 0
             /\ tasks'[1].parent = 0
             /\ tasks'[1].pc = "check"
       /\ (mainPc = "resume" /\ store[initial_url].depth >= max_depth) =>
             branch' = "complete"
       /\ branch' = "complete" =>
             /\ store' = store
             /\ visited' = {}
             /\ tasks' = <<>>
             /\ \A i \in 1..Len(queue') : queue'[i] = Sentinel]_vars

\* C9 witness: a run took the 'already complete' branch and ended.
C9_Witness == branch = "complete" /\ RunDone /\ store[initial_url] # NoRow

\* get_link(href) future j of task t commits in this step, with no storage
\* fault and nothing else having touched the row or the driver meanwhile
CommitStep(t, j) ==
    /\ t \in 1..Len(tasks')
    /\ j \in 1..Len(tasks[t].jobs)
    /\ tasks[t].jobs[j].st = "read"
    /\ tasks'[t].jobs[j].st = "done"
    /\ faults' = faults
    /\ driver = tasks[t].src

\* C10 (check-then-classify), as claimed, for a same-domain link L on page
\* P: no record -> a placeholder (depth 0, empty title and links,
\* source_url = P's resolved URL) is created and L is accepted; a record
\* with depth < max_depth -> its depth becomes old depth + 1 and L is
\* accepted; a record with depth >= max_depth -> L is not accepted and the
\* record is unchanged.
C10_CheckThenClassify ==
    [][\A t \in TaskIds : \A j \in 1..Len(tasks[t].jobs) :
          LET L == tasks[t].jobs[j].href
          IN  /\ (CommitStep(t, j) /\ store[L] = NoRow) =>
                    /\ tasks'[t].jobs[j].acc
                    /\ store'[L] # NoRow
                    /\ store'[L].depth = 0
                    /\ store'[L].source_url = site[tasks[t].src].final
                    /\ store'[L].title.v = ""
                    /\ store'[L].links.v = <<>>
              /\ (CommitStep(t, j) /\ store[L] # NoRow
                     /\ store[L].depth = tasks[t].jobs[j].seen) =>
                    /\ tasks'[t].jobs[j].acc
                    /\ store'[L].depth = store[L].depth + 1
                    /\ store[L].depth < max_depth
              /\ (/\ t \in 1..Len(tasks')
                  /\ tasks[t].jobs[j].st = "queued"
                  /\ tasks'[t].jobs[j].st # "queued"
                  /\ faults' = faults
                  /\ L.host = initial_url.host
                  /\ store[L] # NoRow
                  /\ store[L].depth >= max_depth) =>
                    /\ tasks'[t].jobs[j].st = "done"
                    /\ ~tasks'[t].jobs[j].acc
                    /\ store' = store]_vars

----------------------------------------------------------------------------
(* Concurrency, the writer's lifetime and the queue.                       *)

\* the scrape calls submitted by a fan-out that a worker thread is running
\* now and that are not blocked in concurrent.futures.wait
Executing == {t \in TaskIds : /\ tasks[t].parent # 0
                              /\ tasks[t].pc \notin Terminal \cup {"queued", "join"}}

\* C11 (concurrency bound on expansions), as claimed: at most max_threads
\* submitted scrape calls are executing at the same time, over the whole
\* call tree.
C11_ConcurrencyBound == Cardinality(Executing) <= max_threads

\* C12 (writer lifetime), as claimed: while an expansion is in progress
\* (from the first scrape call to the return of the root call) the writer
\* thread is running.
C12_WriterLifetime == mainPc = "scrape" => writer = "running"

\* the get_link calls that have read the row of their href (line 210) and
\* have not yet committed the insert or the update they decided on
\* (lines 214-216, 220-222)
WritesInProgress ==
    UNION {{<<t, j>> : j \in {i \in 1..Len(tasks[t].jobs) :
                                 /\ tasks[t].pc = "links"
                                 /\ tasks[t].jobs[i].st = "read"}} : t \in TaskIds}

\* C13 (single-writer discipline), as claimed: at most one write to the
\* store is in progress at any time, and no two writes in progress are to
\* the same row.
C13_SingleWriter ==
    /\ Cardinality(WritesInProgress) <= 1
    /\ \A v, w \in WritesInProgress :
          tasks[v[1]].jobs[v[2]].href = tasks[w[1]].jobs[w[2]].href => v = w

\* the root scrape call has returned (or raised) to start_scraping
RootReturned == mainPc \in {"startWriter", "cleanup", "exit", "aborted"} /\ tasks # <<>>

\* C14 (parent waits for children): a scrape call that has returned after
\* its fan-out has every call it submitted in a terminal state (skipped,
\* failed, completed or raised); once the root call has returned every call
\* of the tree is terminal, and from then on no entry is put on the queue
\* by a scrape call of this run.
C14_ParentWaits ==
    /\ [](\A t \in TaskIds : tasks[t].pc = "completed" =>
              \A c \in Children(t) : tasks[c].pc \in Terminal)
    /\ [](RootReturned => AllTerminal)
    /\ [][(RootReturned /\ run' = run) =>
            /\ tasks' = tasks
            /\ \/ queue' = queue
               \/ queue # <<>> /\ queue' = Tail(queue)
               \/ queue' = Append(queue, Sentinel)]_vars

\* C14 witness: the root call has returned after a grandchild, its parent
\* and a sibling that failed had all ended.
C14_Witness ==
    /\ RootReturned
    /\ tasks[1].pc = "completed"
    /\ \E c, g \in TaskIds : /\ tasks[c].parent = 1
                             /\ tasks[g].parent = c
                             /\ tasks[c].pc = "completed"
                             /\ tasks[g].pc = "completed"
    /\ \E c \in TaskIds : tasks[c].pc \in {"failed", "raised", "skipped"}

\* the entries of this run in the order the writer takes them: those it has
\* taken, then those still on the queue
EntriesInOrder ==
    [i \in 1..Len(wlog) |-> wlog[i].e] \o SelectSeq(queue, LAMBDA e : e # Sentinel)

\* an entry is put at the tail of the queue
EnqueueStep == Len(queue') = Len(queue) + 1 /\ SubSeq(queue', 1, Len(queue)) = queue

\* the writer takes the head of the queue: the sentinel, and exits, or a
\* page entry, which is the next one of its log
DequeueStep ==
    /\ queue # <<>>
    /\ queue' = Tail(queue)
    /\ writer = "running"
    /\ IF Head(queue) = Sentinel
       THEN writer' = "exited" /\ wlog' = wlog
       ELSE /\ writer' = "running"
            /\ Len(wlog') = Len(wlog) + 1
            /\ SubSeq(wlog', 1, Len(wlog)) = wlog
            /\ wlog'[Len(wlog')].e = Head(queue)

\* C15 (queue protocol): the queue is only ever appended to at its tail and
\* taken from at its head by the running writer, which logs each page entry
\* it takes (first in, first out, each entry taken once); the entries taken
\* and those still queued are as many as the scrape calls that have saved,
\* each the entry of such a call; the
\* sentinel is the last element of the queue whenever it is there, and is
\* put only when every call has ended; the writer exits with the queue
\* empty, and while a page entry is on the queue the run can take a further
\* step.
C15_QueueProtocol ==
    /\ [][(run' = run /\ (queue' # queue \/ wlog' # wlog)) =>
             (EnqueueStep /\ wlog' = wlog) \/ DequeueStep]_vars
    /\ [](/\ Len(wlog) + Cardinality(PageEntries)
                = Cardinality({t \in TaskIds : tasks[t].saved})
          /\ \A e \in {wlog[i].e : i \in 1..Len(wlog)} \cup {queue[i] : i \in PageEntries} :
                \E t \in TaskIds : /\ tasks[t].saved
                                   /\ tasks[t].url = e.url
                                   /\ tasks[t].depth = e.depth)
    /\ [](\A i \in 1..Len(queue) : queue[i] = Sentinel => (i = Len(queue) /\ AllTerminal))
    /\ [](writer = "exited" => queue = <<>>)
    /\ [](PageEntries # {} => ENABLED Step)

\* C15 witness: the writer has exited after taking three page entries, the
\* seed's first.
C15_Witness ==
    /\ RunDone
    /\ Len(wlog) >= 3
    /\ wlog[1].e.url = initial_url
    /\ Cardinality({t \in TaskIds : tasks[t].saved}) = Len(wlog)

\* the scrape calls for u that have passed the visited test of line 155 and
\* have not yet executed line 157
Racing(u) == {t \in TaskIds : tasks[t].url = u /\ tasks[t].pc = "add"}

\* C16 (at-least-once under race): a scrape call gets past line 155 only
\* while its URL is not in the VisitedSet, so two calls that both fetch one
\* URL have both passed the test before either inserted it; two calls for
\* one URL are between the test and the insert together only with
\* max_threads >= 2.  That such an execution exists is the witness.
C16_AtLeastOnceUnderRace ==
    /\ [][\A t \in TaskIds :
            (t <= Len(tasks') /\ tasks[t].pc # "add" /\ tasks'[t].pc = "add")
                => tasks[t].url \notin visited]_vars
    /\ [](\A u \in AllUrls : Cardinality(Racing(u)) >= 2 => max_threads >= 2)

\* C16 witness: with two threads, two scrape calls for the same URL have
\* both fetched it and both put an entry for it on the queue.
C16_Witness ==
    /\ max_threads >= 2
    /\ \E t1, t2 \in TaskIds :
          /\ t1 # t2
          /\ tasks[t1].url = tasks[t2].url
          /\ tasks[t1].att = "ok" /\ tasks[t2].att = "ok"
          /\ tasks[t1].saved /\ tasks[t2].saved
          /\ Cardinality({i \in 1..Len(EntriesInOrder) :
                             EntriesInOrder[i].url = tasks[t1].url}) >= 2

\* scrape call t returns at line 153 or line 156 in this step
SkipStep(t) == t <= Len(tasks') /\ tasks[t].pc # "skipped" /\ tasks'[t].pc = "skipped"

\* C17 (VisitedSet discipline): visited_urls is empty when the run starts
\* and never loses a URL during the run; the URL of every call whose
\* driver.get has been issued or is about to be is in it; a call stopped by
\* the depth guard or the visited guard has issued no fetch, built no link
\* list, enqueued nothing and submitted nothing, and its return changes
\* neither visited_urls nor the store nor the queue.
C17_VisitedDiscipline ==
    /\ [](mainPc = "start" => visited = {})
    /\ [][run' = run => visited \subseteq visited']_vars
    /\ [](\A t \in TaskIds : FetchIssued(t) => tasks[t].url \in visited)
    /\ [](\A t \in TaskIds : tasks[t].pc = "skipped" =>
              /\ tasks[t].att = "none"
              /\ tasks[t].jobs = <<>>
              /\ ~tasks[t].saved
              /\ Children(t) = {})
    /\ [][\A t \in TaskIds : SkipStep(t) =>
              /\ visited' = visited
              /\ store' = store
              /\ queue' = queue
              /\ driver' = driver]_vars

\* C17 witness: a call was stopped by the visited guard in a run that has
\* fetched at least two URLs, all of them in visited_urls.
C17_Witness ==
    /\ \E t \in TaskIds : tasks[t].pc = "skipped" /\ tasks[t].url \in visited
    /\ Cardinality({u \in AllUrls : Fetchers(u) # {}}) >= 2
    /\ \E t \in TaskIds : tasks[t].pc = "fetch"

\* a store operation of get_link future j of call t raises in this step (the
\* lookup of line 210, or the commit of line 216 or of line 222), which
\* ends the future in the except block of line 223
DedupStoreError(t, j) ==
    /\ t <= Len(tasks')
    /\ j <= Len(tasks[t].jobs)
    /\ tasks[t].jobs[j].st # "done"
    /\ tasks'[t].jobs[j].st = "done"
    /\ faults' = faults - 1

\* C18 (store error during dedup), as claimed: when the lookup, the
\* placeholder insert or the depth update of a link raises, the link is
\* not among the links accepted for expansion, and the classification of
\* the page's other links goes on.
C18_StoreErrorDuringDedup ==
    [][\A t \in TaskIds : \A j \in 1..Len(tasks[t].jobs) :
          DedupStoreError(t, j) =>
             /\ ~tasks'[t].jobs[j].acc
             /\ tasks'[t].pc = "links"
             /\ \A i \in 1..Len(tasks[t].jobs) :
                   i # j => tasks'[t].jobs[i] = tasks[t].jobs[i]]_vars

\* C19 (page/record consistency over the shared driver), as claimed: every
\* entry put on the queue carries the resolved URL and the title of the
\* page fetched for the entry's own url, and its links are links of that
\* page, whatever the interleaving of the calls that share the driver.
C19_PageRecordConsistency ==
    \A i \in 1..Len(EntriesInOrder) :
       LET e == EntriesInOrder[i]
       IN  /\ e.source_url = site[e.url].final
           /\ e.title = site[e.url].title
           /\ Range(e.links) \subseteq Range(ResolveAll(site[e.url].anchors))

\* C20 (stored depth stays in range): in a run started on an empty store
\* every row has 0 <= depth <= max_depth in every state; in any run, every
\* write of a row (the depth update of get_link, also when two of them
\* overlap, and the writer's upsert) leaves that row with
\* 0 <= depth <= max_depth; and no row is ever deleted.
C20_StoredDepthInRange ==
    /\ [](prev.startEmpty =>
             \A u \in AllUrls : store[u] # NoRow =>
                 (0 <= store[u].depth /\ store[u].depth <= max_depth))
    /\ [][\A u \in AllUrls :
            /\ store[u] # NoRow => store'[u] # NoRow
            /\ (store'[u] # store[u]) =>
                  (0 <= store'[u].depth /\ store'[u].depth <= max_depth)]_vars

\* C20 witness: a run started on an empty store has ended with the seed's
\* row at depth 0 and another row at depth max_depth >= 1.
C20_Witness ==
    /\ prev.startEmpty
    /\ RunDone
    /\ max_depth >= 1
    /\ store[initial_url] # NoRow /\ store[initial_url].depth = 0
    /\ \E u \in AllUrls : store[u] # NoRow /\ store[u].depth = max_depth

====
